---- MODULE Spec2Model ----
(***************************************************************************)
(* metadata-inspector: the command line front end of                       *)
(* src/src/metadata_inspector/__init__.py (cli, parse_args, main,          *)
(* _get_files, _open_datasets, dataset_from_hsm).                          *)
(*                                                                         *)
(* Strings that the program takes apart (input specifiers, paths, file     *)
(* names, suffixes) are sequences of one-character strings, so that        *)
(* str.rpartition, pathlib's parsing, Path.suffix, str.lower, glob         *)
(* matching and the ordering used by sorted() are computed as the code     *)
(* computes them.  Messages that are only passed along are sequences of    *)
(* their pieces.                                                           *)
(***************************************************************************)
EXTENDS Integers, Sequences, FiniteSets

VARIABLES
    env,          \* which filesystem / working directory the process runs in
    pc,           \* position of the single thread of control
    input_files,  \* main's input_files (parsed_args.input)
    html,         \* main's html flag (parsed_args.html)
    idx,          \* _get_files: index of the next specifier of the for loop
    acc_fs,       \* _get_files: files_fs while the loop runs
    acc_archive,  \* _get_files: files_archive while the loop runs
    contrib,      \* history: per input position, what that specifier appended
    files_fs,     \* main: first list returned by _get_files
    files_hsm,    \* main: second list returned by _get_files
    dsets,        \* _open_datasets: the list of datasets opened so far
    qidx,         \* _open_datasets: index of the next archive path of the loop
    calls,        \* history: calls made to the collaborators, in order
    error,        \* the exception in flight / caught, or NoError
    result,       \* (msg, text_io) that main returned or cli built, or NoResult
    printed,      \* what cli's print wrote: sequence of [msg, stream]
    escaped       \* exception class that left cli uncaught, or "none"

vars == <<env, pc, input_files, html, idx, acc_fs, acc_archive, contrib,
          files_fs, files_hsm, dsets, qidx, calls, error, result, printed,
          escaped>>

-----------------------------------------------------------------------------
(* Bounds of the model *)

\* longest list of input specifiers given on the command line
MaxInputs == 2

-----------------------------------------------------------------------------
(* Characters and strings *)

\* Unicode code point of the characters that occur in the model (ord())
Ord(c) ==
    CASE c = "*" -> 42  [] c = "." -> 46  [] c = "/" -> 47  [] c = "2" -> 50
      [] c = "3" -> 51  [] c = "4" -> 52  [] c = "5" -> 53  [] c = ":" -> 58
      [] c = "B" -> 66  [] c = "G" -> 71  [] c = "I" -> 73  [] c = "R" -> 82
      [] c = "a" -> 97  [] c = "b" -> 98  [] c = "c" -> 99  [] c = "d" -> 100
      [] c = "e" -> 101 [] c = "f" -> 102 [] c = "g" -> 103 [] c = "h" -> 104
      [] c = "i" -> 105 [] c = "k" -> 107 [] c = "l" -> 108 [] c = "m" -> 109
      [] c = "n" -> 110 [] c = "q" -> 113 [] c = "r" -> 114 [] c = "s" -> 115
      [] c = "t" -> 116 [] c = "x" -> 120 [] c = "z" -> 122 [] c = "~" -> 126

\* str.lower() on one character
LowerChar(c) ==
    CASE c = "B" -> "b" [] c = "G" -> "g" [] c = "I" -> "i" [] c = "R" -> "r"
      [] OTHER -> c

\* str.lower()
Lower(s) == [i \in 1..Len(s) |-> LowerChar(s[i])]

\* s < t for Python strings: lexicographic by code point, a proper prefix first
RECURSIVE StrLess(_, _)
StrLess(s, t) ==
    IF t = <<>> THEN FALSE
    ELSE IF s = <<>> THEN TRUE
    ELSE IF Head(s) = Head(t) THEN StrLess(Tail(s), Tail(t))
    ELSE Ord(Head(s)) < Ord(Head(t))

StrLeq(s, t) == s = t \/ StrLess(s, t)

\* s.startswith(t) at offset i (1-based): t occurs in s at position i
OccursAt(s, t, i) ==
    /\ i + Len(t) - 1 <= Len(s)
    /\ \A k \in 1..Len(t) : s[i + k - 1] = t[k]

\* the elements of a sequence
Range(s) == {s[i] : i \in 1..Len(s)}

\* insert x into the ascending list s, after the entries equal to it
RECURSIVE Insert(_, _)
Insert(x, s) ==
    IF s = <<>> THEN <<x>>
    ELSE IF StrLess(x, Head(s)) THEN <<x>> \o s
    ELSE <<Head(s)>> \o Insert(x, Tail(s))

\* sorted(list_of_str): ascending, every entry kept
RECURSIVE SortedList(_)
SortedList(s) ==
    IF s = <<>> THEN <<>> ELSE Insert(Head(s), SortedList(Tail(s)))

\* the members of a finite set of strings as an ascending list
RECURSIVE SetToSortedList(_)
SetToSortedList(S) ==
    IF S = {} THEN <<>>
    ELSE LET x == CHOOSE y \in S : \A z \in S : StrLeq(y, z)
         IN  <<x>> \o SetToSortedList(S \ {x})

-----------------------------------------------------------------------------
(* str.rpartition *)

SchemeSep == <<":", "/", "/">>

\* inp_file.rpartition("://"): (head, sep, tail) around the LAST occurrence;
\* ("", "", inp_file) when there is none
RPartition(s) ==
    LET hits == {i \in 1..Len(s) : OccursAt(s, SchemeSep, i)}
    IN  IF hits = {} THEN [head |-> <<>>, tail |-> s]
        ELSE LET i == CHOOSE j \in hits : \A k \in hits : k <= j
             IN  [head |-> SubSeq(s, 1, i - 1),
                  tail |-> SubSeq(s, i + Len(SchemeSep), Len(s))]

-----------------------------------------------------------------------------
(* pathlib.PurePosixPath: a path is its root and its segments *)

\* number of leading "/" of s
RECURSIVE LeadingSlashes(_)
LeadingSlashes(s) ==
    IF s # <<>> /\ Head(s) = "/" THEN 1 + LeadingSlashes(Tail(s)) ELSE 0

\* s.split("/") with the empty and the "." pieces dropped
RECURSIVE SplitSegs(_, _)
SplitSegs(s, cur) ==
    LET keep == IF cur = <<>> \/ cur = <<".">> THEN <<>> ELSE <<cur>>
    IN  IF s = <<>> THEN keep
        ELSE IF Head(s) = "/" THEN keep \o SplitSegs(Tail(s), <<>>)
        ELSE SplitSegs(Tail(s), Append(cur, Head(s)))

\* Path(s): root "/" for one or three and more leading slashes, "//" for two
ParsePath(s) ==
    LET n == LeadingSlashes(s)
    IN  [root |-> IF n = 0 THEN <<>> ELSE IF n = 2 THEN <<"/", "/">> ELSE <<"/">>,
         segs |-> SplitSegs(s, <<>>)]

\* Path.parts
Parts(p) == IF p.root = <<>> THEN p.segs ELSE <<p.root>> \o p.segs

RECURSIVE JoinSegs(_)
JoinSegs(segs) ==
    IF segs = <<>> THEN <<>>
    ELSE IF Len(segs) = 1 THEN segs[1]
    ELSE segs[1] \o <<"/">> \o JoinSegs(Tail(segs))

\* str(path)
StrOf(p) ==
    IF p.root = <<>> /\ p.segs = <<>> THEN <<".">> ELSE p.root \o JoinSegs(p.segs)

\* Path.name
Name(p) == IF p.segs = <<>> THEN <<>> ELSE p.segs[Len(p.segs)]

\* Path.parent
Parent(p) ==
    IF p.segs = <<>> THEN p
    ELSE [root |-> p.root, segs |-> SubSeq(p.segs, 1, Len(p.segs) - 1)]

\* Path.suffix: from the last "." of the name, unless it is the first or the
\* last character of the name
Suffix(p) ==
    LET name == Name(p)
        dots == {i \in 1..Len(name) : name[i] = "."}
    IN  IF dots = {} THEN <<>>
        ELSE LET i == CHOOSE j \in dots : \A k \in dots : k <= j
             IN  IF 1 < i /\ i < Len(name) THEN SubSeq(name, i, Len(name))
                 ELSE <<>>

\* fnmatch of a name against a pattern whose only wildcard is "*"
RECURSIVE Match(_, _)
Match(pat, name) ==
    IF pat = <<>> THEN name = <<>>
    ELSE IF Head(pat) = "*"
         THEN Match(Tail(pat), name) \/ (name # <<>> /\ Match(pat, Tail(name)))
    ELSE name # <<>> /\ Head(name) = Head(pat) /\ Match(Tail(pat), Tail(name))

-----------------------------------------------------------------------------
(* The process environment: a filesystem, a working directory, a home *)

n_d       == <<"d">>
n_e       == <<"e">>
n_s       == <<"s">>
n_q       == <<"q">>
n_r       == <<"r">>
n_x       == <<"x">>
n_arch    == <<"a", "r", "c", "h">>
n_a_nc    == <<"a", ".", "n", "c">>
n_b_txt   == <<"b", ".", "t", "x", "t">>
n_c_GRIB2 == <<"c", ".", "G", "R", "I", "B", "2">>
n_f_h5    == <<"f", ".", "h", "5">>
n_x_nc    == <<"x", ".", "n", "c">>
n_z_zarr  == <<"z", ".", "z", "a", "r", "r">>
n_star_GRIB2 == <<"*", ".", "G", "R", "I", "B", "2">>

Dir(segs)  == [segs |-> segs, kind |-> "dir"]
File(segs) == [segs |-> segs, kind |-> "file"]

\* /d holds a.nc, b.txt and c.GRIB2; /e holds the directory s with f.h5;
\* /z.zarr is a zarr store
FSData ==
    { Dir(<<n_d>>), File(<<n_d, n_a_nc>>), File(<<n_d, n_b_txt>>),
      File(<<n_d, n_c_GRIB2>>), Dir(<<n_e>>), Dir(<<n_e, n_s>>),
      File(<<n_e, n_s, n_f_h5>>), Dir(<<n_z_zarr>>) }

\* the same with the archive mounted under /arch
FSArch == FSData \cup { Dir(<<n_arch>>), File(<<n_arch, n_x_nc>>) }

\* the environments a run may start in
Envs == 1..3

Environment(i) ==
    CASE i = 1 -> [fs |-> FSData, cwd |-> <<n_d>>, home |-> <<n_d>>]
      [] i = 2 -> [fs |-> FSData, cwd |-> <<>>, home |-> <<n_d>>]
      [] i = 3 -> [fs |-> FSArch, cwd |-> <<n_arch>>, home |-> <<n_d>>]

\* the path the operating system looks up: relative paths start at the
\* working directory
Resolve(e, p) == (IF p.root = <<>> THEN e.cwd ELSE <<>>) \o p.segs

\* "dir", "file" or "none": os.stat of the path
Kind(e, p) ==
    LET r == Resolve(e, p)
    IN  IF r = <<>> THEN "dir"
        ELSE IF \E f \in e.fs : f.segs = r
             THEN (CHOOSE f \in e.fs : f.segs = r).kind
        ELSE "none"

\* Path.exists(), Path.is_dir(), Path.is_file()
Exists(e, p) == Kind(e, p) # "none"
IsDir(e, p)  == Kind(e, p) = "dir"
IsFile(e, p) == Kind(e, p) = "file"

\* Path.expanduser(): a leading "~" segment of a relative path becomes the home
ExpandUser(e, p) ==
    IF p.root = <<>> /\ p.segs # <<>> /\ Head(p.segs) = <<"~">>
    THEN [root |-> <<"/">>, segs |-> e.home \o Tail(p.segs)]
    ELSE p

\* Path.absolute(): a relative path is appended to the working directory
Absolute(e, p) ==
    IF p.root # <<>> THEN p ELSE [root |-> <<"/">>, segs |-> e.cwd \o p.segs]

\* p.rglob("*"): every entry below p, each as p joined with its relative path
RGlobAll(e, p) ==
    LET r == Resolve(e, p)
    IN  { [root |-> p.root,
           segs |-> p.segs \o SubSeq(f.segs, Len(r) + 1, Len(f.segs))] :
          f \in { g \in e.fs : Len(g.segs) > Len(r)
                               /\ SubSeq(g.segs, 1, Len(r)) = r } }

\* p.rglob(pattern): the entries below p whose name matches the pattern
RGlob(e, p, pattern) == { q \in RGlobAll(e, p) : Match(pattern, Name(q)) }

-----------------------------------------------------------------------------
(* _get_files: the classification of one input specifier *)

s_file == <<"f", "i", "l", "e">>
s_slk  == <<"s", "l", "k">>
s_hsm  == <<"h", "s", "m">>
s_s3   == <<"s", "3">>

sfx_zarr == <<".", "z", "a", "r", "r">>

extensions ==
    { <<".", "n", "c">>, <<".", "n", "c", "4">>, <<".", "g", "r", "b">>,
      <<".", "g", "r", "i", "b">>, <<".", "g", "r", "i", "b", "2">>,
      <<".", "g", "r", "b", "2">>, <<".", "h", "5">>,
      <<".", "h", "d", "f", "5">> }

\* schema, _, path = inp_file.rpartition("://"); schema = schema or "file"
Schema(inp_file) ==
    LET head == RPartition(inp_file).head
    IN  IF head = <<>> THEN s_file ELSE head

\* path as it stands after the normalisation of the file, slk and hsm schemes
NormPath(e, inp_file) ==
    LET path == RPartition(inp_file).tail
    IN  IF Schema(inp_file) \in {s_file, s_slk, s_hsm}
        THEN StrOf(Absolute(e, ExpandUser(e, ParsePath(path))))
        ELSE path

\* inp.parts[1] is evaluated, and there is no such element: IndexError
IndexFails(schema, inp) ==
    schema \notin {s_hsm, s_slk} /\ Len(Parts(inp)) < 2

\* faulty variant: the slk scheme forgotten
IsArchive_HsmOnly(schema, inp) ==
    schema = s_hsm \/ Parts(inp)[2] = n_arch

\* faulty variant: the test of parts[1] forgotten
IsArchive_SchemeOnly(schema, inp) == schema \in {s_hsm, s_slk}

\* schema in ("hsm", "slk") or inp.parts[1] == "arch"
IsArchive(schema, inp) ==
    schema \in {s_hsm, s_slk} \/ Parts(inp)[2] = n_arch

\* faulty variant: the suffix compared without lower()
DirEntries_CaseSensitive(e, inp) ==
    { StrOf(q) : q \in { r \in RGlobAll(e, inp) : Suffix(r) \in extensions } }

\* the directory branch: everything below inp whose lowered suffix is known
DirEntries(e, inp) ==
    { StrOf(q) : q \in { r \in RGlobAll(e, inp) :
                         Lower(Suffix(r)) \in extensions } }

\* the parent branch: what the name matches below the parent, the suffix
\* compared as it is
ParentEntries(e, inp) ==
    { StrOf(q) : q \in { r \in RGlob(e, Parent(inp), Name(inp)) :
                         Suffix(r) \in extensions } }

Appends(fs, archive) == [raises |-> FALSE, fs |-> fs, archive |-> archive]

\* One iteration of the for loop: what it appends to files_fs and to
\* files_archive, or that it raises.  rglob yields in directory order, which
\* the final sorted() makes irrelevant; the entries are appended ascending.
GetFilesOne(e, inp_file) ==
    LET schema == Schema(inp_file)
        path   == NormPath(e, inp_file)
        inp    == ParsePath(path)
    IN  IF IndexFails(schema, inp)
          THEN [raises |-> TRUE, fs |-> <<>>, archive |-> <<>>]
        ELSE IF IsArchive(schema, inp)
          THEN Appends(<<>>, <<path>>)
        ELSE IF Exists(e, inp) /\ Suffix(inp) = sfx_zarr
          THEN Appends(<<path>>, <<>>)
        ELSE IF IsDir(e, inp) /\ Exists(e, inp)
          THEN Appends(SetToSortedList(DirEntries(e, inp)), <<>>)
        ELSE IF IsFile(e, inp) /\ Exists(e, inp)
          THEN Appends(<<StrOf(inp)>>, <<>>)
        ELSE IF Exists(e, Parent(inp)) /\ IsDir(e, Parent(inp))
          THEN Appends(SetToSortedList(ParentEntries(e, inp)), <<>>)
        ELSE Appends(<<inp_file>>, <<>>)

\* faulty variant: the lists returned as the loop left them
GetFilesResult_Unsorted(fs, archive) == [fs |-> fs, archive |-> archive]

\* return sorted(files_fs), sorted(files_archive)
GetFilesResult(fs, archive) ==
    [fs |-> SortedList(fs), archive |-> SortedList(archive)]

-----------------------------------------------------------------------------
(* The input specifiers a command line is drawn from *)

AbsStr(segs) == <<"/">> \o JoinSegs(segs)
WithScheme(scheme, path) == scheme \o SchemeSep \o path

Specifiers ==
    { AbsStr(<<n_d>>),                                 \* /d
      n_a_nc,                                          \* a.nc
      AbsStr(<<n_d, n_a_nc>>),                         \* /d/a.nc
      WithScheme(s_file, AbsStr(<<n_d, n_a_nc>>)),     \* file:///d/a.nc
      <<"~", "/">> \o n_a_nc,                          \* ~/a.nc
      WithScheme(s_hsm, AbsStr(<<n_arch, n_x_nc>>)),   \* hsm:///arch/x.nc
      WithScheme(s_slk, n_x_nc),                       \* slk://x.nc
      AbsStr(<<n_arch, n_x_nc>>),                      \* /arch/x.nc
      JoinSegs(<<n_x, n_arch>>),                       \* x/arch
      WithScheme(s_s3, JoinSegs(<<n_x, n_arch>>)),     \* s3://x/arch
      WithScheme(s_s3, WithScheme(s_hsm, AbsStr(<<n_d, n_a_nc>>))),
                                                       \* s3://hsm:///d/a.nc
      <<"/">>,                                         \* /
      WithScheme(s_s3, n_x),                           \* s3://x
      AbsStr(<<n_z_zarr>>),                            \* /z.zarr
      AbsStr(<<n_e>>),                                 \* /e
      AbsStr(<<n_d, n_star_GRIB2>>),                   \* /d/*.GRIB2
      AbsStr(<<n_q, n_r>>) }                           \* /q/r

-----------------------------------------------------------------------------
(* Exceptions and messages *)

NoError == [class |-> "none", text |-> <<>>]
Raise(class, text) == [class |-> class, text |-> text]

\* str(KeyError(key)) is the repr of the key
KeyError(key) == Raise("KeyError", <<"'", key, "'">>)

NoResult == [msg |-> <<>>, stream |-> "none"]

-----------------------------------------------------------------------------
(* dataset_from_hsm: the dataset rebuilt from the decoded Keywords document *)

\* Decoded Keywords documents the metadata service may answer with: "dims",
\* "data_vars", and one entry per name.  Only the keys the construction
\* branches on are kept (size of a dimension, dims of a variable).
Records == 1..4

Record(i) ==
    CASE i = 1 -> [dims |-> <<"x">>, data_vars |-> <<"v">>,
                   attrs |-> [x |-> [size |-> 2], v |-> [dims |-> <<"x">>]]]
      [] i = 2 -> [dims |-> <<"x">>, data_vars |-> <<"v">>,
                   attrs |-> [x |-> [size |-> 2], v |-> [dims |-> <<"y">>]]]
      [] i = 3 -> [dims |-> <<"x">>, data_vars |-> <<"v", "w">>,
                   attrs |-> [x |-> [size |-> 2], v |-> [dims |-> <<"x">>],
                              w |-> [dims |-> <<"v">>]]]
      [] i = 4 -> [dims |-> <<>>, data_vars |-> <<>>,
                   attrs |-> [n \in {} |-> 0]]

RECURSIVE Product(_)
Product(sizes) == IF sizes = <<>> THEN 1 ELSE Head(sizes) * Product(Tail(sizes))

Built(dset) == [error |-> NoError, dset |-> dset]
Failed(err) == [error |-> err, dset |-> <<>>]

\* for dim in attrs.pop("dims", []): dset[dim] = DataArray(linspace(..., size))
RECURSIVE AddDims(_, _, _)
AddDims(rec, i, dset) ==
    IF i > Len(rec.dims) THEN Built(dset)
    ELSE LET dim == rec.dims[i]
         IN  IF dim \notin DOMAIN rec.attrs THEN Failed(KeyError(dim))
             ELSE IF "size" \notin DOMAIN rec.attrs[dim]
                  THEN Failed(KeyError("size"))
             ELSE AddDims(rec, i + 1,
                          [n \in DOMAIN dset \cup {dim} |->
                              IF n = dim
                              THEN [coord |-> TRUE, size |-> rec.attrs[dim].size]
                              ELSE dset[n]])

\* sizes = [dset[d].size for d in dims]: dset[d] finds any variable of the
\* dataset built so far, a coordinate or a data variable, and raises KeyError
\* when there is none of that name
Lookup(dset, d) ==
    IF d \in DOMAIN dset THEN [found |-> TRUE, size |-> dset[d].size]
    ELSE [found |-> FALSE, size |-> 0]

\* for data_var in attrs.pop("data_vars", []): the possible outcomes.  When a
\* listed dimension is found but is a data variable, the assignment hands the
\* dataset library a dimension named like a non-coordinate variable: depending
\* on the library it is refused (MergeError, a ValueError) or accepted.
RECURSIVE AddVars(_, _, _)
AddVars(rec, i, dset) ==
    IF i > Len(rec.data_vars) THEN {Built(dset)}
    ELSE LET var == rec.data_vars[i]
         IN  IF var \notin DOMAIN rec.attrs THEN {Failed(KeyError(var))}
             ELSE IF "dims" \notin DOMAIN rec.attrs[var]
                  THEN {Failed(KeyError("dims"))}
             ELSE LET dims    == rec.attrs[var].dims
                      missing == {k \in 1..Len(dims) : ~Lookup(dset, dims[k]).found}
                      sizes   == [k \in 1..Len(dims) |-> Lookup(dset, dims[k]).size]
                      clash   == \E k \in 1..Len(dims) : ~dset[dims[k]].coord
                      next    == [n \in DOMAIN dset \cup {var} |->
                                    IF n = var
                                    THEN [coord |-> FALSE, size |-> Product(sizes)]
                                    ELSE dset[n]]
                  IN  IF missing # {}
                      THEN {Failed(KeyError(
                               dims[CHOOSE k \in missing : \A m \in missing : k <= m]))}
                      ELSE (IF clash
                            THEN {Failed(Raise("ValueError", <<"MergeError">>))}
                            ELSE {})
                           \cup AddVars(rec, i + 1, next)

\* dataset_from_hsm(input_file), given the record get_slk_metadata returned
DatasetFromHsm(rec) ==
    LET d == AddDims(rec, 1, [n \in {} |-> 0])
    IN  IF d.error # NoError THEN {d} ELSE AddVars(rec, 1, d.dset)

-----------------------------------------------------------------------------
(* main and cli: what is returned and what is caught *)

\* faulty variant: except BaseException
IsException_Base(class) == TRUE

\* except Exception: SystemExit derives from BaseException only
IsException(class) == class # "SystemExit"

\* if not files_fs and not files_hsm
NoFiles(fs, hsm) == fs = <<>> /\ hsm = <<>>

\* faulty variant: the message returned with sys.stdout
NoFilesResult_Stdout == [msg |-> <<"No files found">>, stream |-> "stdout"]

\* return "No files found", sys.stderr
NoFilesResult == [msg |-> <<"No files found">>, stream |-> "stderr"]

error_header ==
    "No data found, file(s) might be corrupted. See err. message below:"

html_notice ==
    "<p><b>Error:</b>Could not open dataset for more details do not use the --html flag.</p>"

\* faulty variant: the html notice returned with sys.stderr like the plain message
ExceptResult_AlwaysStderr(h, err) ==
    IF h THEN [msg |-> <<html_notice>>, stream |-> "stderr"]
    ELSE [msg |-> <<error_header, "\n">> \o err.text, stream |-> "stderr"]

\* the except branch of main: the notice on stdout with html, the header and
\* the error text on stderr without
ExceptResult(h, err) ==
    IF h THEN [msg |-> <<html_notice>>, stream |-> "stdout"]
    ELSE [msg |-> <<error_header, "\n">> \o err.text, stream |-> "stderr"]

\* the rendered dataset after the replacements, returned with sys.stdout
RenderResult(h) ==
    [msg |-> <<IF h THEN "formatting_html.dataset_repr"
               ELSE "formatting.dataset_repr">>,
     stream |-> "stdout"]

\* cli's handler: msg, text_io = f"Error: {error}", sys.stderr
CliExceptResult(err) == [msg |-> <<"Error: ">> \o err.text, stream |-> "stderr"]

\* if files_hsm: login() ...
NeedsLogin(hsm) == hsm # <<>>

\* faulty variant: the archive list walked from its end
QueryPath_Reversed(hsm, k) == hsm[Len(hsm) + 1 - k]

\* for inp_file in files_hsm: the path queried in the k-th iteration
QueryPath(hsm, k) == hsm[k]

Call(fn, arg, ret) == [fn |-> fn, arg |-> arg, ret |-> ret]

Env == Environment(env)

-----------------------------------------------------------------------------
(* The state machine *)

Init ==
    /\ env \in Envs
    /\ pc = "cli"
    /\ input_files = <<>>
    /\ html = FALSE
    /\ idx = 1
    /\ acc_fs = <<>>
    /\ acc_archive = <<>>
    /\ contrib = <<>>
    /\ files_fs = <<>>
    /\ files_hsm = <<>>
    /\ dsets = <<>>
    /\ qidx = 1
    /\ calls = <<>>
    /\ error = NoError
    /\ result = NoResult
    /\ printed = <<>>
    /\ escaped = "none"

\* parse_args returns (parsed_args.input, parsed_args.html); nargs="+" takes
\* one specifier or more
ParseArgs ==
    /\ pc = "cli"
    /\ \E n \in 1..MaxInputs : \E inputs \in [1..n -> Specifiers] :
          input_files' = inputs
    /\ html' \in BOOLEAN
    /\ pc' = "get_files"
    /\ UNCHANGED <<env, idx, acc_fs, acc_archive, contrib, files_fs, files_hsm,
                   dsets, qidx, calls, error, result, printed, escaped>>

\* app.parse_args on a bad command line: argparse writes the usage and its
\* own error line to stderr and raises SystemExit(2)
ParseArgsExits ==
    /\ pc = "cli"
    /\ error' = Raise("SystemExit", <<"2">>)
    /\ printed' = Append(printed,
                         [msg |-> <<"usage: metadata-inspector",
                                    "metadata-inspector: error: ">>,
                          stream |-> "stderr"])
    /\ pc' = "cli_raised"
    /\ UNCHANGED <<env, input_files, html, idx, acc_fs, acc_archive, contrib,
                   files_fs, files_hsm, dsets, qidx, calls, result, escaped>>

\* one iteration of the for loop of _get_files; an IndexError leaves main,
\* which calls _get_files outside its try
GetFilesStep ==
    /\ pc = "get_files"
    /\ idx <= Len(input_files)
    /\ LET r == GetFilesOne(Env, input_files[idx])
       IN  IF r.raises
           THEN /\ error' = Raise("IndexError", <<"tuple index out of range">>)
                /\ pc' = "cli_raised"
                /\ UNCHANGED <<idx, acc_fs, acc_archive, contrib>>
           ELSE /\ acc_fs' = acc_fs \o r.fs
                /\ acc_archive' = acc_archive \o r.archive
                /\ contrib' = Append(contrib, [fs |-> r.fs, archive |-> r.archive])
                /\ idx' = idx + 1
                /\ UNCHANGED <<error, pc>>
    /\ UNCHANGED <<env, input_files, html, files_fs, files_hsm, dsets, qidx,
                   calls, result, printed, escaped>>

\* files_fs, files_hsm = _get_files(input_files)
GetFilesReturn ==
    /\ pc = "get_files"
    /\ idx > Len(input_files)
    /\ files_fs' = GetFilesResult(acc_fs, acc_archive).fs
    /\ files_hsm' = GetFilesResult(acc_fs, acc_archive).archive
    /\ pc' = "main"
    /\ UNCHANGED <<env, input_files, html, idx, acc_fs, acc_archive, contrib,
                   dsets, qidx, calls, error, result, printed, escaped>>

\* the short cut of main when nothing was found
MainNoFiles ==
    /\ pc = "main"
    /\ NoFiles(files_fs, files_hsm)
    /\ result' = NoFilesResult
    /\ pc' = "print"
    /\ UNCHANGED <<env, input_files, html, idx, acc_fs, acc_archive, contrib,
                   files_fs, files_hsm, dsets, qidx, calls, error, printed,
                   escaped>>

\* main enters the try and calls _open_datasets
MainOpen ==
    /\ pc = "main"
    /\ ~NoFiles(files_fs, files_hsm)
    /\ pc' = "open_fs"
    /\ UNCHANGED <<env, input_files, html, idx, acc_fs, acc_archive, contrib,
                   files_fs, files_hsm, dsets, qidx, calls, error, result,
                   printed, escaped>>

AfterOpenFs == IF NeedsLogin(files_hsm) THEN "login" ELSE "merge"

\* if files_fs: dsets.append(open_mfdataset(files_fs))
OpenMfdataset ==
    /\ pc = "open_fs"
    /\ files_fs # <<>>
    /\ calls' = Append(calls, Call("open_mfdataset", files_fs, 0))
    /\ \/ /\ dsets' = Append(dsets, "open_mfdataset")
          /\ pc' = AfterOpenFs
          /\ UNCHANGED error
       \/ /\ error' = Raise("OSError", <<"open_mfdataset">>)
          /\ pc' = "except"
          /\ UNCHANGED dsets
    /\ UNCHANGED <<env, input_files, html, idx, acc_fs, acc_archive, contrib,
                   files_fs, files_hsm, qidx, result, printed, escaped>>

\* files_fs is empty: nothing is opened from the filesystem
SkipOpenFs ==
    /\ pc = "open_fs"
    /\ files_fs = <<>>
    /\ pc' = AfterOpenFs
    /\ UNCHANGED <<env, input_files, html, idx, acc_fs, acc_archive, contrib,
                   files_fs, files_hsm, dsets, qidx, calls, error, result,
                   printed, escaped>>

\* login(), which returns or raises
Login ==
    /\ pc = "login"
    /\ calls' = Append(calls, Call("login", <<>>, 0))
    /\ \/ /\ pc' = "hsm"
          /\ UNCHANGED error
       \/ /\ error' = Raise("Exception", <<"login">>)
          /\ pc' = "except"
    /\ UNCHANGED <<env, input_files, html, idx, acc_fs, acc_archive, contrib,
                   files_fs, files_hsm, dsets, qidx, result, printed, escaped>>

\* one iteration of the loop over files_hsm: get_slk_metadata answers with a
\* record or raises, and dataset_from_hsm builds the dataset or raises
HsmStep ==
    /\ pc = "hsm"
    /\ qidx <= Len(files_hsm)
    /\ \/ \E r \in Records : \E out \in DatasetFromHsm(Record(r)) :
             /\ calls' = Append(calls, Call("get_slk_metadata",
                                            QueryPath(files_hsm, qidx), r))
             /\ IF out.error = NoError
                THEN /\ dsets' = Append(dsets, out.dset)
                     /\ qidx' = qidx + 1
                     /\ pc' = IF qidx + 1 > Len(files_hsm) THEN "merge" ELSE "hsm"
                     /\ UNCHANGED error
                ELSE /\ error' = out.error
                     /\ pc' = "except"
                     /\ UNCHANGED <<dsets, qidx>>
       \/ /\ calls' = Append(calls, Call("get_slk_metadata",
                                         QueryPath(files_hsm, qidx), 0))
          /\ error' = Raise("Exception", <<"get_slk_metadata">>)
          /\ pc' = "except"
          /\ UNCHANGED <<dsets, qidx>>
    /\ UNCHANGED <<env, input_files, html, idx, acc_fs, acc_archive, contrib,
                   files_fs, files_hsm, result, printed, escaped>>

\* return xr.merge(dsets), which raises on conflicting values
Merge ==
    /\ pc = "merge"
    /\ calls' = Append(calls, Call("merge", <<>>, 0))
    /\ \/ /\ pc' = "render"
          /\ UNCHANGED error
       \/ /\ error' = Raise("ValueError", <<"MergeError">>)
          /\ pc' = "except"
    /\ UNCHANGED <<env, input_files, html, idx, acc_fs, acc_archive, contrib,
                   files_fs, files_hsm, dsets, qidx, result, printed, escaped>>

\* the rendering of the merged dataset and return out_str, sys.stdout
Render ==
    /\ pc = "render"
    /\ result' = RenderResult(html)
    /\ pc' = "print"
    /\ UNCHANGED <<env, input_files, html, idx, acc_fs, acc_archive, contrib,
                   files_fs, files_hsm, dsets, qidx, calls, error, printed,
                   escaped>>

\* except Exception as error, in main
MainExcept ==
    /\ pc = "except"
    /\ IsException(error.class)
    /\ result' = ExceptResult(html, error)
    /\ pc' = "print"
    /\ UNCHANGED <<env, input_files, html, idx, acc_fs, acc_archive, contrib,
                   files_fs, files_hsm, dsets, qidx, calls, error, printed,
                   escaped>>

\* except Exception as error, in cli
CliExcept ==
    /\ pc = "cli_raised"
    /\ IsException(error.class)
    /\ result' = CliExceptResult(error)
    /\ pc' = "print"
    /\ UNCHANGED <<env, input_files, html, idx, acc_fs, acc_archive, contrib,
                   files_fs, files_hsm, dsets, qidx, calls, error, printed,
                   escaped>>

\* an exception that is no Exception passes cli's handler and ends the process
CliEscapes ==
    /\ pc = "cli_raised"
    /\ ~IsException(error.class)
    /\ escaped' = error.class
    /\ pc' = "done"
    /\ UNCHANGED <<env, input_files, html, idx, acc_fs, acc_archive, contrib,
                   files_fs, files_hsm, dsets, qidx, calls, error, result,
                   printed>>

\* print(msg, file=text_io, flush=True)
CliPrint ==
    /\ pc = "print"
    /\ printed' = Append(printed, result)
    /\ pc' = "done"
    /\ UNCHANGED <<env, input_files, html, idx, acc_fs, acc_archive, contrib,
                   files_fs, files_hsm, dsets, qidx, calls, error, result,
                   escaped>>

Next ==
    \/ ParseArgs
    \/ ParseArgsExits
    \/ GetFilesStep
    \/ GetFilesReturn
    \/ MainNoFiles
    \/ MainOpen
    \/ OpenMfdataset
    \/ SkipOpenFs
    \/ Login
    \/ HsmStep
    \/ Merge
    \/ Render
    \/ MainExcept
    \/ CliExcept
    \/ CliEscapes
    \/ CliPrint

Spec == Init /\ [][Next]_vars

-----------------------------------------------------------------------------
(* Properties *)

\* _get_files has just returned its two lists to main
GetFilesReturned == pc = "main"

\* the specifiers of the command line, by position
Inputs == 1..Len(input_files)

\* Path(path) of the i-th specifier, as line 134 builds it
InpOf(i) == ParsePath(NormPath(Env, input_files[i]))

\* ascending, equal neighbours allowed
IsSorted(s) == \A k \in 1..(Len(s) - 1) : StrLeq(s[k], s[k + 1])

\* ascending without equal neighbours
IsStrictlySorted(s) == \A k \in 1..(Len(s) - 1) : StrLess(s[k], s[k + 1])

RECURSIVE SumLen(_, _)
SumLen(c, field) ==
    IF c = <<>> THEN 0 ELSE Len(Head(c)[field]) + SumLen(Tail(c), field)

\* C1: when _get_files returns, every specifier whose scheme (the text before
\* the last "://") is hsm or slk has its normalised path in the archive list
\* and has appended nothing to the filesystem list, in every environment.
C1_SchemeIsArchive ==
    GetFilesReturned =>
        \A i \in Inputs :
            RPartition(input_files[i]).head \in {s_hsm, s_slk} =>
                /\ NormPath(Env, input_files[i]) \in Range(files_hsm)
                /\ contrib[i].fs = <<>>

\* an slk specifier with a relative path and an hsm specifier naming a file
\* that exists on the filesystem were both classified
C1_Witness ==
    /\ GetFilesReturned
    /\ \E i \in Inputs :
          /\ RPartition(input_files[i]).head = s_slk
          /\ NormPath(Env, input_files[i]) \in Range(files_hsm)
    /\ \E i \in Inputs :
          /\ RPartition(input_files[i]).head = s_hsm
          /\ IsFile(Env, InpOf(i))
          /\ NormPath(Env, input_files[i]) \in Range(files_hsm)

\* C2 as stated: every specifier whose own path, as written after the scheme,
\* has "arch" as its second part is in the archive list and not in the
\* filesystem list, whatever its form.
C2_AsStated ==
    GetFilesReturned =>
        \A i \in Inputs :
            LET written == ParsePath(RPartition(input_files[i]).tail)
            IN  (Len(Parts(written)) >= 2 /\ Parts(written)[2] = n_arch) =>
                    /\ contrib[i].archive # <<>>
                    /\ contrib[i].fs = <<>>

\* C2 amended: every specifier whose path after the normalisation of line 133
\* (made absolute for file, slk and hsm, left as written for any other
\* scheme) has "arch" at index 1 of its parts is in the archive list with that
\* path and appends nothing to the filesystem list, whether or not it exists.
C2_NormalisedArch ==
    GetFilesReturned =>
        \A i \in Inputs :
            (Len(Parts(InpOf(i))) >= 2 /\ Parts(InpOf(i))[2] = n_arch) =>
                /\ NormPath(Env, input_files[i]) \in Range(files_hsm)
                /\ contrib[i].archive = <<NormPath(Env, input_files[i])>>
                /\ contrib[i].fs = <<>>

\* a schemeless /arch path that does not exist was put in the archive list
C2_Witness ==
    /\ GetFilesReturned
    /\ \E i \in Inputs :
          /\ RPartition(input_files[i]).head = <<>>
          /\ Parts(InpOf(i))[2] = n_arch
          /\ ~Exists(Env, InpOf(i))
          /\ StrOf(InpOf(i)) \in Range(files_hsm)

\* C3 as stated: both returned lists are ascending and hold no entry twice.
C3_AsStated ==
    GetFilesReturned => IsStrictlySorted(files_fs) /\ IsStrictlySorted(files_hsm)

\* C3 amended: both returned lists are ascending and hold every entry the
\* loop appended, an entry appended twice being kept twice.
C3_SortedKeepsAll ==
    GetFilesReturned =>
        /\ IsSorted(files_fs)
        /\ IsSorted(files_hsm)
        /\ Len(files_fs) = SumLen(contrib, "fs")
        /\ Len(files_hsm) = SumLen(contrib, "archive")
        /\ \A i \in Inputs :
              /\ Range(contrib[i].fs) \subseteq Range(files_fs)
              /\ Range(contrib[i].archive) \subseteq Range(files_hsm)

\* lists were returned whose entries were appended out of order, one of them
\* twice
C3_Witness ==
    /\ GetFilesReturned
    /\ Len(files_fs) >= 2
    /\ files_fs # acc_fs
    /\ ~IsStrictlySorted(files_fs)

\* C4: _get_files never raises IndexError on parts[1].
C4_NoIndexError == error.class # "IndexError"

\* C5: whenever both returned lists are empty, main returns "No files found"
\* with the error stream, with or without html, and no collaborator (opener,
\* login, metadata query, merge) is called in the run.
C5_NoFilesFound ==
    (/\ pc \in {"print", "done"}
     /\ error = NoError
     /\ files_fs = <<>>
     /\ files_hsm = <<>>) =>
        /\ result = [msg |-> <<"No files found">>, stream |-> "stderr"]
        /\ calls = <<>>
        /\ pc = "done" => printed = <<result>>

\* a run with html set ended with nothing found
C5_Witness ==
    /\ pc = "done"
    /\ html
    /\ error = NoError
    /\ files_fs = <<>>
    /\ files_hsm = <<>>
    /\ input_files # <<>>

\* main has returned (msg, text_io) for a run in which something was found
MainReturnedWithFiles ==
    /\ pc = "print"
    /\ error.class # "IndexError"
    /\ ~(files_fs = <<>> /\ files_hsm = <<>>)

\* C6: with at least one classified file, main returns the rendered text with
\* stdout when opening and merging succeed, the header and the error text
\* with stderr when they raise without html, and the html notice with stdout
\* when they raise with html; a rendering is never returned after a failure.
C6_StreamByOutcome ==
    MainReturnedWithFiles =>
        /\ error = NoError =>
              /\ result.stream = "stdout"
              /\ result.msg = <<IF html THEN "formatting_html.dataset_repr"
                                ELSE "formatting.dataset_repr">>
        /\ (error # NoError /\ ~html) =>
              /\ result.stream = "stderr"
              /\ result.msg = <<error_header, "\n">> \o error.text
        /\ (error # NoError /\ html) =>
              /\ result.stream = "stdout"
              /\ result.msg = <<html_notice>>

\* a failed reconstruction with html set came back on stdout
C6_Witness ==
    /\ MainReturnedWithFiles
    /\ html
    /\ error.class = "KeyError"
    /\ result.stream = "stdout"
    /\ dsets # <<>>

\* the exception in flight was raised by login()
LoginFailed == error = Raise("Exception", <<"login">>)

\* cli's own message for the exception in flight
ErrorLine == [msg |-> <<"Error: ">> \o error.text, stream |-> "stderr"]

\* C7 as stated: an argument-parsing failure and a login failure are caught by
\* cli and printed exactly once as "Error: <message>" on stderr; neither is
\* reported by main's "might be corrupted" message nor leaves cli uncaught.
C7_AsStated ==
    (pc = "done" /\ (error.class = "SystemExit" \/ LoginFailed)) =>
        /\ printed = <<ErrorLine>>
        /\ escaped = "none"

\* C7 amended: an exception that leaves main (the IndexError of _get_files) is
\* caught by cli and printed exactly once as "Error: <message>" on stderr.  A
\* login failure is caught by main's handler instead and printed once as the
\* "might be corrupted" header with the error text on stderr, or as the html
\* notice on stdout with html.  An argument-parsing failure ends in argparse's
\* SystemExit, which passes cli's handler: cli prints nothing.
C7_CaughtWhereRaised ==
    pc = "done" =>
        /\ error.class = "IndexError" =>
              (printed = <<ErrorLine>> /\ escaped = "none")
        /\ LoginFailed =>
              /\ escaped = "none"
              /\ printed = <<IF html
                             THEN [msg |-> <<html_notice>>, stream |-> "stdout"]
                             ELSE [msg |-> <<error_header, "\n", "login">>,
                                   stream |-> "stderr"]>>
        /\ error.class = "SystemExit" =>
              /\ escaped = "SystemExit"
              /\ \A k \in 1..Len(printed) : Head(printed[k].msg) # "Error: "

\* a run whose login failed has ended, without html
C7_Witness ==
    /\ pc = "done"
    /\ LoginFailed
    /\ ~html
    /\ Len(printed) = 1
    /\ printed[1].stream = "stderr"

\* a data variable of the record lists a dimension that "dims" does not declare
UndeclaredDim(rec) ==
    \E v \in Range(rec.data_vars) :
        /\ v \in DOMAIN rec.attrs
        /\ \E d \in Range(rec.attrs[v].dims) : d \notin Range(rec.dims)

\* C8: for every record in which a data variable lists an undeclared
\* dimension, dataset_from_hsm raises a lookup error (KeyError), and main
\* without html returns the "might be corrupted" header followed by the error
\* text with stderr.
C8_AsStated ==
    \A k \in 1..Len(calls) :
        (/\ calls[k].fn = "get_slk_metadata"
         /\ calls[k].ret \in Records
         /\ UndeclaredDim(Record(calls[k].ret))) =>
            /\ k = Len(calls)
            /\ error.class = "KeyError"
            /\ (pc = "print" /\ ~html) =>
                  result = [msg |-> <<error_header, "\n">> \o error.text,
                            stream |-> "stderr"]

\* positions in the history of the calls to one collaborator
Positions(fn) == {k \in 1..Len(calls) : calls[k].fn = fn}

IsQuery(c) == c.fn = "get_slk_metadata"

\* the paths queried, in the order of the queries
QueryArgs ==
    LET q == SelectSeq(calls, IsQuery) IN [k \in 1..Len(q) |-> q[k].arg]

\* _open_datasets has just returned to main or raised into main's handler
OpenDatasetsEnded == pc \in {"render", "except"}

\* C10 as stated: with a non-empty archive list login is called exactly once,
\* before the first query, and the queries follow the sorted archive list one
\* per path unless login raised; with an empty list neither is called.
C10_AsStated ==
    OpenDatasetsEnded =>
        /\ files_hsm # <<>> =>
              /\ Cardinality(Positions("login")) = 1
              /\ \A l \in Positions("login") :
                    \A q \in Positions("get_slk_metadata") : l < q
              /\ IF LoginFailed THEN QueryArgs = <<>>
                 ELSE QueryArgs = files_hsm
        /\ files_hsm = <<>> =>
              Positions("login") \cup Positions("get_slk_metadata") = {}

\* C10 amended: with an empty archive list neither login nor a query is
\* called.  With a non-empty one login is called at most once, and exactly
\* once unless open_mfdataset raised before it; every query follows it; no
\* query follows a login that raised; the queries are a prefix of the sorted
\* archive list, in its order, which is the whole list when _open_datasets
\* returns and ends early only at a query or reconstruction that raised.
C10_LoginThenPrefix ==
    OpenDatasetsEnded =>
        /\ files_hsm = <<>> =>
              Positions("login") \cup Positions("get_slk_metadata") = {}
        /\ files_hsm # <<>> =>
              /\ Cardinality(Positions("login")) <= 1
              /\ Positions("login") = {} <=>
                    error = Raise("OSError", <<"open_mfdataset">>)
              /\ \A l \in Positions("login") :
                    \A q \in Positions("get_slk_metadata") : l < q
              /\ LoginFailed => QueryArgs = <<>>
              /\ Len(QueryArgs) <= Len(files_hsm)
              /\ QueryArgs = SubSeq(files_hsm, 1, Len(QueryArgs))
              /\ pc = "render" => QueryArgs = files_hsm
              /\ (Len(QueryArgs) < Len(files_hsm) /\ QueryArgs # <<>>) =>
                    /\ calls[Len(calls)].fn = "get_slk_metadata"
                    /\ error # NoError

\* two different archive paths, given in descending order, were queried after
\* one login
C10_Witness ==
    /\ pc = "render"
    /\ Len(QueryArgs) = 2
    /\ StrLess(QueryArgs[1], QueryArgs[2])
    /\ acc_archive # files_hsm
    /\ calls[1].fn = "login"

\* the paths below a directory of fs whose lowered suffix is a known one
KnownBelow(e, dirsegs) ==
    { AbsStr(f.segs) :
        f \in { g \in e.fs :
                  /\ Len(g.segs) > Len(dirsegs)
                  /\ SubSeq(g.segs, 1, Len(dirsegs)) = dirsegs
                  /\ Lower(Suffix([root |-> <<"/">>, segs |-> g.segs]))
                        \in extensions } }

\* C9: a specifier naming an existing directory, not classified as archive
\* and without the suffix .zarr, appends exactly the entries found below the
\* directory whose suffix, lowered, is one of the eight extensions: /d with
\* a.nc, b.txt and c.GRIB2 yields /d/a.nc and /d/c.GRIB2, returned ascending.
C9_DirectoryExpansion ==
    GetFilesReturned =>
        /\ \A i \in Inputs :
              (/\ RPartition(input_files[i]).head \notin {s_hsm, s_slk}
               /\ InpOf(i).root = <<"/">>
               /\ Parts(InpOf(i))[2] # n_arch
               /\ IsDir(Env, InpOf(i))
               /\ Suffix(InpOf(i)) # sfx_zarr) =>
                  /\ Range(contrib[i].fs) = KnownBelow(Env, InpOf(i).segs)
                  /\ Len(contrib[i].fs) = Cardinality(KnownBelow(Env, InpOf(i).segs))
        /\ input_files = <<AbsStr(<<n_d>>)>> =>
              files_fs = <<AbsStr(<<n_d, n_a_nc>>), AbsStr(<<n_d, n_c_GRIB2>>)>>
        /\ input_files = <<AbsStr(<<n_e>>)>> =>
              files_fs = <<AbsStr(<<n_e, n_s, n_f_h5>>)>>

\* the directory /d was expanded to a.nc and c.GRIB2
C9_Witness ==
    /\ GetFilesReturned
    /\ input_files = <<AbsStr(<<n_d>>)>>
    /\ files_fs = <<AbsStr(<<n_d, n_a_nc>>), AbsStr(<<n_d, n_c_GRIB2>>)>>

====
